---- MODULE Spec2Model ----
(***************************************************************************)
(* The Gauss quadrature tables of solidspy/gaussutil.py: gauss_1d,         *)
(* gauss_nd, gauss_tri and the fixed grids gpoints2x2, gpoints7, gpoints3. *)
(*                                                                         *)
(* A Python float is modelled as the binary64 number it is: a record       *)
(* [s, m, e] of value s * m * 2^e with 2^52 <= m < 2^53 (FZero for 0), m   *)
(* held as little-endian limbs in base 10000.  Dec turns a decimal literal *)
(* of the source into the nearest binary64, and FMul is the binary64       *)
(* product, both rounding to nearest, ties to even.                        *)
(***************************************************************************)
EXTENDS Integers, Sequences, FiniteSets, Bags, TLC

VARIABLES call, ret, heap, held

vars == <<call, ret, heap, held>>

(* ----------------------------- bounds ---------------------------------- *)
MaxNpts == 12
MaxDim == 3
MaxOrder == 9
MaxNeg == 2
MaxPoints == 100

NptsArgs == (0 - MaxNeg)..MaxNpts
DimArgs == (0 - MaxNeg)..MaxDim
OrderArgs == (0 - MaxNeg)..MaxOrder

(* the arguments of gauss_nd: every npts with one or two axes or fewer,    *)
(* and with more axes those of at most MaxPoints points                    *)
NdArgs == {a \in NptsArgs \X DimArgs : a[2] <= 2 \/ a[1] ^ a[2] <= MaxPoints}

(* ------------------- natural numbers of any size ----------------------- *)

(* F at the values of a and b, each computed once before F uses them *)
At1(F(_), a) == CHOOSE r \in {F(x) : x \in {a}} : TRUE

At2(F(_, _), a, b) == CHOOSE r \in {F(x, y) : x \in {a}, y \in {b}} : TRUE

Base == 100 * 100

Max(a, b) == IF a >= b THEN a ELSE b

(* a natural number is the sequence of its digits in base Base, the lowest *)
(* first and the highest not 0                                             *)
RECURSIVE Norm(_)
Norm(a) == IF a = <<>> THEN <<>>
           ELSE IF a[Len(a)] = 0 THEN Norm(SubSeq(a, 1, Len(a) - 1)) ELSE a

Limb(a, i) == IF i <= Len(a) THEN a[i] ELSE 0

(* the digits of the sums s[1], s[2], ... of one column each, carried *)
Carry(s) ==
  LET go[i \in 1..(Len(s) + 1), c \in Nat] ==
        IF i > Len(s) THEN (IF c = 0 THEN <<>> ELSE <<c>>)
        ELSE <<(s[i] + c) % Base>> \o go[i + 1, (s[i] + c) \div Base]
  IN Norm(go[1, 0])

AddN(a0, b0) ==
  At2(LAMBDA a, b :
        Carry([i \in 1..Max(Len(a), Len(b)) |-> Limb(a, i) + Limb(b, i)]),
      a0, b0)

(* a - b for a >= b *)
SubN(a0, b0) ==
  At2(LAMBDA a, b :
        LET go[i \in 1..(Len(a) + 1), c \in 0..1] ==
              IF i > Len(a) THEN <<>>
              ELSE IF a[i] - Limb(b, i) - c < 0
                   THEN <<a[i] - Limb(b, i) - c + Base>> \o go[i + 1, 1]
                   ELSE <<a[i] - Limb(b, i) - c>> \o go[i + 1, 0]
        IN Norm(go[1, 0]),
      a0, b0)

(* -1, 0 or 1 as a < b, a = b or a > b *)
CmpN(a0, b0) ==
  At2(LAMBDA a, b :
        LET go[i \in 0..Max(Len(a), Len(b))] ==
              IF i = 0 THEN 0
              ELSE IF Limb(a, i) > Limb(b, i) THEN 1
              ELSE IF Limb(a, i) < Limb(b, i) THEN -1
              ELSE go[i - 1]
        IN go[Max(Len(a), Len(b))],
      a0, b0)

AbsDiffN(a0, b0) ==
  At2(LAMBDA a, b : IF CmpN(a, b) >= 0 THEN SubN(a, b) ELSE SubN(b, a), a0, b0)

(* a * k for k < 200000 *)
MulSmall(a0, k0) ==
  At2(LAMBDA a, k : Carry([i \in 1..Len(a) |-> a[i] * k]), a0, k0)

ShiftLimbs(a0, k) ==
  At1(LAMBDA a : IF a = <<>> THEN <<>> ELSE [i \in 1..k |-> 0] \o a, a0)

MulN(a0, b0) ==
  At2(LAMBDA a, b :
        LET go[i \in 1..(Len(b) + 1)] ==
              IF i > Len(b) THEN <<>>
              ELSE AddN(ShiftLimbs(MulSmall(a, b[i]), i - 1), go[i + 1])
        IN go[1],
      a0, b0)

(* a \div k for k < 200000 *)
DivSmall(a0, k0) ==
  At2(LAMBDA a, k :
        LET go[i \in 0..Len(a), r \in 0..(k - 1)] ==
              IF i = 0 THEN <<>>
              ELSE go[i - 1, (r * Base + a[i]) % k] \o <<(r * Base + a[i]) \div k>>
        IN Norm(go[Len(a), 0]),
      a0, k0)

(* a * 2^k and a \div 2^k, thirteen bits at a time *)
RECURSIVE Shl(_, _)
Shl(a0, k) ==
  At1(LAMBDA a : IF k <= 13 THEN MulSmall(a, 2^k) ELSE Shl(MulSmall(a, 2^13), k - 13),
      a0)

RECURSIVE Shr(_, _)
Shr(a0, k) ==
  At1(LAMBDA a : IF k <= 13 THEN DivSmall(a, 2^k) ELSE Shr(DivSmall(a, 2^13), k - 13),
      a0)

Pow2(k) == Shl(<<1>>, k)

(* the powers of 2 that bound a mantissa and a product of two mantissas *)
TwoTo52 == Pow2(52)

TwoTo53 == Pow2(53)

TwoTo105 == Pow2(105)

Pow10(k) == ShiftLimbs(<<10^(k % 4)>>, k \div 4)

Odd(a) == a # <<>> /\ a[1] % 2 = 1

(* ------------------------------ binary64 ------------------------------- *)

(* q, or q + 1 when the part r dropped by a division by d is more than     *)
(* half of d, or exactly half of it with q odd                             *)
RoundEven(q0, r0, d) ==
  At2(LAMBDA q, r :
        At1(LAMBDA c : IF c > 0 \/ (c = 0 /\ Odd(q)) THEN AddN(q, <<1>>) ELSE q,
            CmpN(MulSmall(r, 2), d)),
      q0, r0)

FZero == [s |-> 0, m |-> <<>>, e |-> 0]

(* the float s * m * 2^e, for a rounded m that may have reached 2^53 *)
Renorm(sg, m0, e) ==
  At1(LAMBDA m : IF CmpN(m, TwoTo53) = 0
                 THEN [s |-> sg, m |-> TwoTo52, e |-> e + 1]
                 ELSE [s |-> sg, m |-> m, e |-> e],
      m0)

(* the float of the decimal literal ip.g1g2g3g4g5, g five groups of four   *)
(* decimals: 0.225 is Dec(0, <<2250, 0000, 0000, 0000, 0000>>)             *)
RECURSIVE DecScale(_, _)
DecScale(n0, k) ==
  At1(LAMBDA n :
        IF CmpN(Shl(n, 13), ShiftLimbs(TwoTo52, 5)) < 0 THEN DecScale(Shl(n, 13), k + 13)
        ELSE IF CmpN(n, ShiftLimbs(TwoTo52, 5)) < 0 THEN DecScale(MulSmall(n, 2), k + 1)
        ELSE Renorm(1, RoundEven(SubSeq(n, 6, Len(n)), Norm(SubSeq(n, 1, 5)),
                                 Pow10(20)), 0 - k),
      n0)

Dec(ip, g) ==
  IF ip = 0 /\ g = <<0, 0, 0, 0, 0>> THEN FZero
  ELSE DecScale(Norm(<<g[5], g[4], g[3], g[2], g[1], ip>>), 0)

(* unary minus *)
FNeg(a) == [a EXCEPT !.s = 0 - a.s]

(* a * b *)
FMul(a0, b0) ==
  At2(LAMBDA a, b :
        IF a.s = 0 \/ b.s = 0 THEN FZero
        ELSE At1(LAMBDA p :
               At1(LAMBDA sh :
                 At1(LAMBDA q :
                       Renorm(a.s * b.s,
                              RoundEven(q, SubN(p, Shl(q, sh)),
                                        IF sh = 53 THEN TwoTo53 ELSE TwoTo52),
                              a.e + b.e + sh),
                     Shr(p, sh)),
                 IF CmpN(p, TwoTo105) >= 0 THEN 53 ELSE 52),
               MulN(a.m, b.m)),
      a0, b0)

FOne == [s |-> 1, m |-> TwoTo52, e |-> -52]

(* the float a literal of the source denotes *)
Float(lit) ==
  At1(LAMBDA f : IF lit[1] < 0 THEN FNeg(f) ELSE f, Dec(lit[2], SubSeq(lit, 3, 7)))

Floats(t) == [i \in 1..Len(t) |-> Float(t[i])]

(* --------------------- the tables of the source ------------------------ *)

(* A literal of the source is written <<sg, ip, g1, g2, g3, g4, g5>>: the   *)
(* sign sg (-1 under a unary minus), the integral part ip and the decimals *)
(* in five groups of four, so -0.225 is <<-1, 0, 2250, 0000, 0000, 0000,  *)
(* 0000>>; the literal 0 is << 1, 0, 0000, 0000, 0000, 0000, 0000>>.        *)
pts_2 ==
  <<<<-1, 0, 5773, 5026, 9189, 6257, 6400>>,
     << 1, 0, 5773, 5026, 9189, 6257, 6400>>>>

wts_2 ==
  <<<< 1, 1, 0000, 0000, 0000, 0000, 0000>>,
     << 1, 1, 0000, 0000, 0000, 0000, 0000>>>>

pts_3 ==
  <<<<-1, 0, 7745, 9666, 9241, 4833, 7700>>,
     << 1, 0, 0000, 0000, 0000, 0000, 0000>>,
     << 1, 0, 7745, 9666, 9241, 4833, 7700>>>>

wts_3 ==
  <<<< 1, 0, 5555, 5555, 5555, 5555, 5600>>,
     << 1, 0, 8888, 8888, 8888, 8888, 8900>>,
     << 1, 0, 5555, 5555, 5555, 5555, 5600>>>>

pts_4 ==
  <<<<-1, 0, 8611, 3631, 1594, 0525, 7500>>,
     <<-1, 0, 3399, 8104, 3584, 8562, 6500>>,
     << 1, 0, 3399, 8104, 3584, 8562, 6500>>,
     << 1, 0, 8611, 3631, 1594, 0525, 7500>>>>

wts_4 ==
  <<<< 1, 0, 3478, 5484, 5137, 4538, 5700>>,
     << 1, 0, 6521, 4515, 4862, 5461, 4300>>,
     << 1, 0, 6521, 4515, 4862, 5461, 4300>>,
     << 1, 0, 3478, 5484, 5137, 4538, 5700>>>>

pts_5 ==
  <<<<-1, 0, 9061, 7984, 5938, 6639, 9300>>,
     <<-1, 0, 5384, 6931, 0105, 6830, 9100>>,
     << 1, 0, 0000, 0000, 0000, 0000, 0000>>,
     << 1, 0, 5384, 6931, 0105, 6830, 9100>>,
     << 1, 0, 9061, 7984, 5938, 6639, 9300>>>>

wts_5 ==
  <<<< 1, 0, 2369, 2688, 5056, 1890, 8800>>,
     << 1, 0, 4786, 2867, 0499, 3664, 6800>>,
     << 1, 0, 5688, 8888, 8888, 8888, 8900>>,
     << 1, 0, 4786, 2867, 0499, 3664, 6800>>,
     << 1, 0, 2369, 2688, 5056, 1890, 8800>>>>

pts_6 ==
  <<<<-1, 0, 9324, 6951, 4203, 1520, 2800>>,
     <<-1, 0, 6612, 0938, 6466, 2645, 1400>>,
     <<-1, 0, 2386, 1918, 6083, 1969, 0900>>,
     << 1, 0, 2386, 1918, 6083, 1969, 0900>>,
     << 1, 0, 6612, 0938, 6466, 2645, 1400>>,
     << 1, 0, 9324, 6951, 4203, 1520, 2800>>>>

wts_6 ==
  <<<< 1, 0, 1713, 2449, 2379, 1703, 4500>>,
     << 1, 0, 3607, 6157, 3048, 1386, 0800>>,
     << 1, 0, 4679, 1393, 4572, 6910, 4700>>,
     << 1, 0, 4679, 1393, 4572, 6910, 4700>>,
     << 1, 0, 3607, 6157, 3048, 1386, 0800>>,
     << 1, 0, 1713, 2449, 2379, 1703, 4500>>>>

pts_7 ==
  <<<<-1, 0, 9491, 0791, 2342, 7585, 2500>>,
     <<-1, 0, 7415, 3118, 5599, 3944, 4000>>,
     <<-1, 0, 4058, 4515, 1377, 3971, 6700>>,
     << 1, 0, 0000, 0000, 0000, 0000, 0000>>,
     << 1, 0, 4058, 4515, 1377, 3971, 6700>>,
     << 1, 0, 7415, 3118, 5599, 3944, 4000>>,
     << 1, 0, 9491, 0791, 2342, 7585, 2500>>>>

(* wts_7 with two digits of the middle weight exchanged *)
wts_7_typo ==
  <<<< 1, 0, 1294, 8496, 6168, 8696, 9300>>,
     << 1, 0, 2797, 0539, 1489, 2766, 6800>>,
     << 1, 0, 3818, 3005, 0505, 1189, 4500>>,
     << 1, 0, 4197, 5918, 3673, 4693, 8800>>,
     << 1, 0, 3818, 3005, 0505, 1189, 4500>>,
     << 1, 0, 2797, 0539, 1489, 2766, 6800>>,
     << 1, 0, 1294, 8496, 6168, 8696, 9300>>>>

wts_7 ==
  <<<< 1, 0, 1294, 8496, 6168, 8696, 9300>>,
     << 1, 0, 2797, 0539, 1489, 2766, 6800>>,
     << 1, 0, 3818, 3005, 0505, 1189, 4500>>,
     << 1, 0, 4179, 5918, 3673, 4693, 8800>>,
     << 1, 0, 3818, 3005, 0505, 1189, 4500>>,
     << 1, 0, 2797, 0539, 1489, 2766, 6800>>,
     << 1, 0, 1294, 8496, 6168, 8696, 9300>>>>

pts_8 ==
  <<<<-1, 0, 9602, 8985, 6497, 5362, 3200>>,
     <<-1, 0, 7966, 6647, 7413, 6267, 4000>>,
     <<-1, 0, 5255, 3240, 9916, 3289, 8600>>,
     <<-1, 0, 1834, 3464, 2495, 6498, 0500>>,
     << 1, 0, 1834, 3464, 2495, 6498, 0500>>,
     << 1, 0, 5255, 3240, 9916, 3289, 8600>>,
     << 1, 0, 7966, 6647, 7413, 6267, 4000>>,
     << 1, 0, 9602, 8985, 6497, 5362, 3200>>>>

wts_8 ==
  <<<< 1, 0, 1012, 2853, 6290, 3762, 5900>>,
     << 1, 0, 2223, 8103, 4453, 3744, 7100>>,
     << 1, 0, 3137, 0664, 5877, 8872, 8700>>,
     << 1, 0, 3626, 8378, 3378, 3619, 8300>>,
     << 1, 0, 3626, 8378, 3378, 3619, 8300>>,
     << 1, 0, 3137, 0664, 5877, 8872, 8700>>,
     << 1, 0, 2223, 8103, 4453, 3744, 7100>>,
     << 1, 0, 1012, 2853, 6290, 3762, 5900>>>>

pts_9 ==
  <<<<-1, 0, 9681, 6023, 9507, 6260, 9000>>,
     <<-1, 0, 8360, 3110, 7326, 6357, 9400>>,
     <<-1, 0, 6133, 7143, 2700, 5903, 9700>>,
     <<-1, 0, 3242, 5342, 3403, 8089, 2900>>,
     << 1, 0, 0000, 0000, 0000, 0000, 0000>>,
     << 1, 0, 3242, 5342, 3403, 8089, 2900>>,
     << 1, 0, 6133, 7143, 2700, 5903, 9700>>,
     << 1, 0, 8360, 3110, 7326, 6357, 9400>>,
     << 1, 0, 9681, 6023, 9507, 6260, 9000>>>>

wts_9 ==
  <<<< 1, 0, 0812, 7438, 8361, 5744, 1200>>,
     << 1, 0, 1806, 4816, 0694, 8574, 0400>>,
     << 1, 0, 2606, 1069, 6402, 9354, 6200>>,
     << 1, 0, 3123, 4707, 7040, 0028, 4000>>,
     << 1, 0, 3302, 3935, 5001, 2597, 6300>>,
     << 1, 0, 3123, 4707, 7040, 0028, 4000>>,
     << 1, 0, 2606, 1069, 6402, 9354, 6200>>,
     << 1, 0, 1806, 4816, 0694, 8574, 0400>>,
     << 1, 0, 0812, 7438, 8361, 5744, 1200>>>>

pts_10 ==
  <<<<-1, 0, 9739, 0652, 8517, 1717, 2000>>,
     <<-1, 0, 8650, 6336, 6688, 9845, 1100>>,
     <<-1, 0, 6794, 0956, 8299, 0244, 0600>>,
     <<-1, 0, 4333, 9539, 4129, 2471, 9100>>,
     <<-1, 0, 1488, 7433, 8981, 6312, 1100>>,
     << 1, 0, 1488, 7433, 8981, 6312, 1100>>,
     << 1, 0, 4333, 9539, 4129, 2471, 9100>>,
     << 1, 0, 6794, 0956, 8299, 0244, 0600>>,
     << 1, 0, 8650, 6336, 6688, 9845, 1100>>,
     << 1, 0, 9739, 0652, 8517, 1717, 2000>>>>

wts_10 ==
  <<<< 1, 0, 0666, 7134, 4308, 6881, 3760>>,
     << 1, 0, 1494, 5134, 9150, 5805, 9300>>,
     << 1, 0, 2190, 8636, 2515, 9820, 4400>>,
     << 1, 0, 2692, 6671, 9309, 9963, 5500>>,
     << 1, 0, 2955, 2422, 4714, 7528, 7000>>,
     << 1, 0, 2955, 2422, 4714, 7528, 7000>>,
     << 1, 0, 2692, 6671, 9309, 9963, 5500>>,
     << 1, 0, 2190, 8636, 2515, 9820, 4400>>,
     << 1, 0, 1494, 5134, 9150, 5805, 9300>>,
     << 1, 0, 0666, 7134, 4308, 6881, 3760>>>>

tri_pts_1 ==
  <<<<<< 1, 0, 3333, 3333, 3333, 3000, 0000>>, << 1, 0, 3333, 3333, 3333, 3000, 0000>>>>>>

tri_wts_1 ==
  <<<< 1, 1, 0000, 0000, 0000, 0000, 0000>>>>

tri_pts_2 ==
  <<<<<< 1, 0, 1666, 6666, 6666, 7000, 0000>>, << 1, 0, 1666, 6666, 6666, 7000, 0000>>>>,
     <<<< 1, 0, 6666, 6666, 6666, 7000, 0000>>, << 1, 0, 1666, 6666, 6666, 7000, 0000>>>>,
     <<<< 1, 0, 1666, 6666, 6666, 7000, 0000>>, << 1, 0, 6666, 6666, 6666, 7000, 0000>>>>>>

(* the weight that np.full repeats for order 2 *)
tri_wt_2 ==
  << 1, 0, 3333, 3333, 3333, 0000, 0000>>

(* tri_pts_345 with its fourth and sixth points exchanged *)
tri_pts_345_reordered ==
  <<<<<< 1, 0, 1012, 8650, 7323, 5000, 0000>>, << 1, 0, 1012, 8650, 7323, 5000, 0000>>>>,
     <<<< 1, 0, 7974, 2698, 5353, 1000, 0000>>, << 1, 0, 1012, 8650, 7323, 5000, 0000>>>>,
     <<<< 1, 0, 1012, 8650, 7323, 5000, 0000>>, << 1, 0, 7974, 2698, 5353, 1000, 0000>>>>,
     <<<< 1, 0, 0597, 1587, 1789, 8000, 0000>>, << 1, 0, 4701, 4206, 4105, 1000, 0000>>>>,
     <<<< 1, 0, 4701, 4206, 4105, 1000, 0000>>, << 1, 0, 4701, 4206, 4105, 1000, 0000>>>>,
     <<<< 1, 0, 4701, 4206, 4105, 1000, 0000>>, << 1, 0, 0597, 1587, 1789, 8000, 0000>>>>,
     <<<< 1, 0, 3333, 3333, 3333, 3000, 0000>>, << 1, 0, 3333, 3333, 3333, 3000, 0000>>>>>>

tri_pts_345 ==
  <<<<<< 1, 0, 1012, 8650, 7323, 5000, 0000>>, << 1, 0, 1012, 8650, 7323, 5000, 0000>>>>,
     <<<< 1, 0, 7974, 2698, 5353, 1000, 0000>>, << 1, 0, 1012, 8650, 7323, 5000, 0000>>>>,
     <<<< 1, 0, 1012, 8650, 7323, 5000, 0000>>, << 1, 0, 7974, 2698, 5353, 1000, 0000>>>>,
     <<<< 1, 0, 4701, 4206, 4105, 1000, 0000>>, << 1, 0, 0597, 1587, 1789, 8000, 0000>>>>,
     <<<< 1, 0, 4701, 4206, 4105, 1000, 0000>>, << 1, 0, 4701, 4206, 4105, 1000, 0000>>>>,
     <<<< 1, 0, 0597, 1587, 1789, 8000, 0000>>, << 1, 0, 4701, 4206, 4105, 1000, 0000>>>>,
     <<<< 1, 0, 3333, 3333, 3333, 3000, 0000>>, << 1, 0, 3333, 3333, 3333, 3000, 0000>>>>>>

tri_wts_345 ==
  <<<< 1, 0, 1259, 3918, 0544, 8000, 0000>>,
     << 1, 0, 1259, 3918, 0544, 8000, 0000>>,
     << 1, 0, 1259, 3918, 0544, 8000, 0000>>,
     << 1, 0, 1323, 9415, 2788, 5000, 0000>>,
     << 1, 0, 1323, 9415, 2788, 5000, 0000>>,
     << 1, 0, 1323, 9415, 2788, 5000, 0000>>,
     << 1, 0, 2250, 0000, 0000, 0000, 0000>>>>

tri_pts_67 ==
  <<<<<< 1, 0, 0651, 3010, 2902, 2000, 0000>>, << 1, 0, 0651, 3010, 2902, 2000, 0000>>>>,
     <<<< 1, 0, 8697, 3979, 4195, 6000, 0000>>, << 1, 0, 0651, 3010, 2902, 2000, 0000>>>>,
     <<<< 1, 0, 0651, 3010, 2902, 2000, 0000>>, << 1, 0, 8697, 3979, 4195, 6000, 0000>>>>,
     <<<< 1, 0, 3128, 6549, 6004, 9000, 0000>>, << 1, 0, 0486, 9031, 5425, 3000, 0000>>>>,
     <<<< 1, 0, 6384, 4418, 8569, 8000, 0000>>, << 1, 0, 3128, 6549, 6004, 9000, 0000>>>>,
     <<<< 1, 0, 0486, 9031, 5425, 3000, 0000>>, << 1, 0, 6384, 4418, 8569, 8000, 0000>>>>,
     <<<< 1, 0, 6384, 4418, 8569, 8000, 0000>>, << 1, 0, 0486, 9031, 5425, 3000, 0000>>>>,
     <<<< 1, 0, 3128, 6549, 6004, 9000, 0000>>, << 1, 0, 6384, 4418, 8569, 8000, 0000>>>>,
     <<<< 1, 0, 0486, 9031, 5425, 3000, 0000>>, << 1, 0, 3128, 6549, 6004, 9000, 0000>>>>,
     <<<< 1, 0, 2603, 4596, 6079, 0000, 0000>>, << 1, 0, 2603, 4596, 6079, 0000, 0000>>>>,
     <<<< 1, 0, 4793, 0806, 7841, 3000, 0000>>, << 1, 0, 2603, 4596, 6079, 0000, 0000>>>>,
     <<<< 1, 0, 2603, 4596, 6079, 0000, 0000>>, << 1, 0, 4793, 0806, 7841, 3000, 0000>>>>,
     <<<< 1, 0, 3333, 3333, 3333, 3000, 0000>>, << 1, 0, 3333, 3333, 3333, 3000, 0000>>>>>>

(* tri_wts_67 with the sign of the last weight lost *)
tri_wts_67_positive ==
  <<<< 1, 0, 0533, 4723, 5608, 8000, 0000>>,
     << 1, 0, 0533, 4723, 5608, 8000, 0000>>,
     << 1, 0, 0533, 4723, 5608, 8000, 0000>>,
     << 1, 0, 0771, 1376, 0890, 3000, 0000>>,
     << 1, 0, 0771, 1376, 0890, 3000, 0000>>,
     << 1, 0, 0771, 1376, 0890, 3000, 0000>>,
     << 1, 0, 0771, 1376, 0890, 3000, 0000>>,
     << 1, 0, 0771, 1376, 0890, 3000, 0000>>,
     << 1, 0, 0771, 1376, 0890, 3000, 0000>>,
     << 1, 0, 1756, 1525, 7433, 2000, 0000>>,
     << 1, 0, 1756, 1525, 7433, 2000, 0000>>,
     << 1, 0, 1756, 1525, 7433, 2000, 0000>>,
     << 1, 0, 1495, 7004, 4467, 7000, 0000>>>>

tri_wts_67 ==
  <<<< 1, 0, 0533, 4723, 5608, 8000, 0000>>,
     << 1, 0, 0533, 4723, 5608, 8000, 0000>>,
     << 1, 0, 0533, 4723, 5608, 8000, 0000>>,
     << 1, 0, 0771, 1376, 0890, 3000, 0000>>,
     << 1, 0, 0771, 1376, 0890, 3000, 0000>>,
     << 1, 0, 0771, 1376, 0890, 3000, 0000>>,
     << 1, 0, 0771, 1376, 0890, 3000, 0000>>,
     << 1, 0, 0771, 1376, 0890, 3000, 0000>>,
     << 1, 0, 0771, 1376, 0890, 3000, 0000>>,
     << 1, 0, 1756, 1525, 7433, 2000, 0000>>,
     << 1, 0, 1756, 1525, 7433, 2000, 0000>>,
     << 1, 0, 1756, 1525, 7433, 2000, 0000>>,
     <<-1, 0, 1495, 7004, 4467, 7000, 0000>>>>

(* ------------------------- values and results -------------------------- *)

(* a list or a one-dimensional array of floats *)
List(s) == [shape |-> <<Len(s)>>, data |-> s]

(* a two-dimensional array: its rows, each of cols floats *)
Array2(rows, cols) == [shape |-> <<Len(rows), cols>>, data |-> rows]

(* [l1, l2, ...]: the list of the literals t *)
ListOf(t) == List(Floats(t))

(* np.array([[l11, l12], [l21, l22], ...]): the array of the rows of literals t *)
ArrayOf(t) == Array2([i \in 1..Len(t) |-> Floats(t[i])], 2)

Return(v) == [status |-> "return", exc |-> "", msg |-> "", value |-> v]

Raise(exc, msg) == [status |-> "raise", exc |-> exc, msg |-> msg, value |-> <<>>]

(* ------------------------------- General ------------------------------- *)

gauss_1d(npts) ==
  CASE npts = 2 -> Return(<<ListOf(pts_2), ListOf(wts_2)>>)
    [] npts = 3 -> Return(<<ListOf(pts_3), ListOf(wts_3)>>)
    [] npts = 4 -> Return(<<ListOf(pts_4), ListOf(wts_4)>>)
    [] npts = 5 -> Return(<<ListOf(pts_5), ListOf(wts_5)>>)
    [] npts = 6 -> Return(<<ListOf(pts_6), ListOf(wts_6)>>)
    [] npts = 7 -> Return(<<ListOf(pts_7), ListOf(wts_7)>>)
    [] npts = 8 -> Return(<<ListOf(pts_8), ListOf(wts_8)>>)
    [] npts = 9 -> Return(<<ListOf(pts_9), ListOf(wts_9)>>)
    [] npts = 10 -> Return(<<ListOf(pts_10), ListOf(wts_10)>>)
    [] OTHER -> Raise("ValueError", "The number of points should be in [2, 10]")

(* itertools.product(iterable, repeat=repeat) as a list: every tuple of     *)
(* repeat elements, the last element changing fastest                      *)
(* product_pools with the first element changing fastest *)
RECURSIVE product_pools_first_fastest(_, _)
product_pools_first_fastest(pool, k) ==
  IF k = 0 THEN << <<>> >>
  ELSE At1(LAMBDA result :
             [i \in 1..(Len(result) * Len(pool)) |->
                <<pool[((i - 1) % Len(pool)) + 1]>>
                  \o result[((i - 1) \div Len(pool)) + 1]],
           product_pools_first_fastest(pool, k - 1))

RECURSIVE product_pools(_, _)
product_pools(pool, k) ==
  IF k = 0 THEN << <<>> >>
  ELSE At1(LAMBDA result :
             [i \in 1..(Len(result) * Len(pool)) |->
                Append(result[((i - 1) \div Len(pool)) + 1],
                       pool[((i - 1) % Len(pool)) + 1])],
           product_pools(pool, k - 1))

product(iterable, repeat) ==
  IF repeat < 0 THEN Raise("ValueError", "repeat argument cannot be negative")
  ELSE At1(LAMBDA pool : Return(product_pools(pool, repeat)), iterable)

(* np.prod: the product of the elements from the first on, 1.0 for none *)
np_prod(t0) ==
  At1(LAMBDA t :
        LET go[k \in 0..Len(t)] == IF k = 0 THEN FOne ELSE FMul(go[k - 1], t[k])
        IN go[Len(t)],
      t0)

(* gauss_nd catching gauss_1d's error and raising one of its own *)
gauss_nd_masking(npts, ndim) ==
  At1(LAMBDA r :
        IF r.status = "raise" THEN Raise("ValueError", "Invalid quadrature rule")
        ELSE At2(LAMBDA p, w :
                   IF p.status = "raise" THEN p
                   ELSE LET nd_pts == Array2(p.value, ndim)
                            nd_wts == [i \in 1..Len(w.value) |-> np_prod(w.value[i])]
                        IN Return(<<nd_pts, List(nd_wts)>>),
                 product(r.value[1].data, ndim), product(r.value[2].data, ndim)),
      gauss_1d(npts))

gauss_nd(npts, ndim) ==
  At1(LAMBDA r :
        IF r.status = "raise" THEN r
        ELSE At2(LAMBDA p, w :
                   IF p.status = "raise" THEN p
                   ELSE LET nd_pts == Array2(p.value, ndim)
                            nd_wts == [i \in 1..Len(w.value) |-> np_prod(w.value[i])]
                        IN Return(<<nd_pts, List(nd_wts)>>),
                 product(r.value[1].data, ndim), product(r.value[2].data, ndim)),
      gauss_1d(npts))

(* np.full([n], lit) *)
np_full(n, lit) == At1(LAMBDA v : List([i \in 1..n |-> v]), Float(lit))

(* gauss_tri with order 5 sent to the 13-point rule and order 7 refused *)
gauss_tri_shifted(order) ==
  CASE order = 1 -> Return(<<ArrayOf(tri_pts_1), ListOf(tri_wts_1)>>)
    [] order = 2 ->
         Return(<<ArrayOf(tri_pts_2), np_full(3, tri_wt_2)>>)
    [] order \in {3, 4} -> Return(<<ArrayOf(tri_pts_345), ListOf(tri_wts_345)>>)
    [] order \in {5, 6} -> Return(<<ArrayOf(tri_pts_67), ListOf(tri_wts_67)>>)
    [] OTHER -> Raise("ValueError", "The order should be in [1, 7]")

gauss_tri(order) ==
  CASE order = 1 -> Return(<<ArrayOf(tri_pts_1), ListOf(tri_wts_1)>>)
    [] order = 2 ->
         Return(<<ArrayOf(tri_pts_2), np_full(3, tri_wt_2)>>)
    [] order \in {3, 4, 5} -> Return(<<ArrayOf(tri_pts_345), ListOf(tri_wts_345)>>)
    [] order \in {6, 7} -> Return(<<ArrayOf(tri_pts_67), ListOf(tri_wts_67)>>)
    [] OTHER -> Raise("ValueError", "The order should be in [1, 7]")

(* --------------------------- Fixed grids (old) ------------------------- *)

np_ones(n) == List([i \in 1..n |-> FOne])

np_zeros(n) == List([i \in 1..n |-> FZero])

np_zeros2(n, k) == Array2([i \in 1..n |-> [j \in 1..k |-> FZero]], k)

(* arr after the assignments arr[i] = lit, or arr[i, j] = lit, of as, in   *)
(* order; the indices count from 0 as in the source                       *)
SetItems(arr0, as0) ==
  At2(LAMBDA arr, as :
        LET go[k \in 0..Len(as)] ==
              IF k = 0 THEN arr.data
              ELSE At1(LAMBDA v :
                         IF Len(as[k]) = 2
                         THEN [go[k - 1] EXCEPT ![as[k][1] + 1] = v]
                         ELSE [go[k - 1] EXCEPT ![as[k][1] + 1][as[k][2] + 1] = v],
                       Float(as[k][Len(as[k])]))
        IN [arr EXCEPT !.data = go[Len(as)]],
      arr0, as0)

(* gpoints2x2 returning its points first *)
gpoints2x2_points_first ==
  LET wts == np_ones(4)
      pts == ArrayOf(<< << <<-1, 0, 5773, 5026, 9189, 6260, 0000>>,
                           << 1, 0, 5773, 5026, 9189, 6260, 0000>> >>,
                        << << 1, 0, 5773, 5026, 9189, 6260, 0000>>,
                           << 1, 0, 5773, 5026, 9189, 6260, 0000>> >>,
                        << <<-1, 0, 5773, 5026, 9189, 6260, 0000>>,
                           <<-1, 0, 5773, 5026, 9189, 6260, 0000>> >>,
                        << << 1, 0, 5773, 5026, 9189, 6260, 0000>>,
                           <<-1, 0, 5773, 5026, 9189, 6260, 0000>> >> >>)
  IN Return(<<pts, wts>>)

gpoints2x2 ==
  LET wts == np_ones(4)
      pts == SetItems(np_zeros2(4, 2),
               << <<0, 0, <<-1, 0, 5773, 5026, 9189, 6260, 0000>> >>,
                  <<1, 0, << 1, 0, 5773, 5026, 9189, 6260, 0000>> >>,
                  <<2, 0, <<-1, 0, 5773, 5026, 9189, 6260, 0000>> >>,
                  <<3, 0, << 1, 0, 5773, 5026, 9189, 6260, 0000>> >>,
                  <<0, 1, << 1, 0, 5773, 5026, 9189, 6260, 0000>> >>,
                  <<1, 1, << 1, 0, 5773, 5026, 9189, 6260, 0000>> >>,
                  <<2, 1, <<-1, 0, 5773, 5026, 9189, 6260, 0000>> >>,
                  <<3, 1, <<-1, 0, 5773, 5026, 9189, 6260, 0000>> >> >>)
  IN Return(<<wts, pts>>)

gpoints7 ==
  LET wts == SetItems(np_zeros(7),
               << <<0, << 1, 0, 1259, 3918, 0544, 8000, 0000>> >>,
                  <<1, << 1, 0, 1259, 3918, 0544, 8000, 0000>> >>,
                  <<2, << 1, 0, 1259, 3918, 0544, 8000, 0000>> >>,
                  <<3, << 1, 0, 1323, 9415, 2788, 5000, 0000>> >>,
                  <<4, << 1, 0, 1323, 9415, 2788, 5000, 0000>> >>,
                  <<5, << 1, 0, 1323, 9415, 2788, 5000, 0000>> >>,
                  <<6, << 1, 0, 2250, 0000, 0000, 0000, 0000>> >> >>)
      pts == SetItems(np_zeros2(7, 2),
               << <<0, 0, << 1, 0, 1012, 8650, 7323, 5000, 0000>> >>,
                  <<1, 0, << 1, 0, 7974, 2698, 5353, 1000, 0000>> >>,
                  <<2, 0, << 1, 0, 1012, 8650, 7323, 5000, 0000>> >>,
                  <<3, 0, << 1, 0, 4701, 4206, 4105, 1000, 0000>> >>,
                  <<4, 0, << 1, 0, 4701, 4206, 4105, 1000, 0000>> >>,
                  <<5, 0, << 1, 0, 0597, 1587, 1789, 8000, 0000>> >>,
                  <<6, 0, << 1, 0, 3333, 3333, 3333, 3000, 0000>> >>,
                  <<0, 1, << 1, 0, 1012, 8650, 7323, 5000, 0000>> >>,
                  <<1, 1, << 1, 0, 1012, 8650, 7323, 5000, 0000>> >>,
                  <<2, 1, << 1, 0, 7974, 2698, 5353, 1000, 0000>> >>,
                  <<3, 1, << 1, 0, 0597, 1587, 1789, 8000, 0000>> >>,
                  <<4, 1, << 1, 0, 4701, 4206, 4105, 1000, 0000>> >>,
                  <<5, 1, << 1, 0, 4701, 4206, 4105, 1000, 0000>> >>,
                  <<6, 1, << 1, 0, 3333, 3333, 3333, 3000, 0000>> >> >>)
  IN Return(<<wts, pts>>)

gpoints3 ==
  LET wts == np_full(3, << 1, 0, 3333, 3333, 3333, 0000, 0000>>)
      pts == SetItems(np_zeros2(3, 2),
               << <<0, 0, << 1, 0, 1666, 6666, 6666, 7000, 0000>> >>,
                  <<1, 0, << 1, 0, 6666, 6666, 6666, 7000, 0000>> >>,
                  <<2, 0, << 1, 0, 1666, 6666, 6666, 7000, 0000>> >>,
                  <<0, 1, << 1, 0, 1666, 6666, 6666, 7000, 0000>> >>,
                  <<1, 1, << 1, 0, 1666, 6666, 6666, 7000, 0000>> >>,
                  <<2, 1, << 1, 0, 6666, 6666, 6666, 7000, 0000>> >> >>)
  IN Return(<<wts, pts>>)

(* ------------------------- callers and objects ------------------------- *)

Callers == {"c1", "c2"}

NoCall == [op |-> "none", args |-> <<>>]

NoResult == [status |-> "none", exc |-> "", msg |-> "", value |-> <<>>]

(* what a caller holds: the call it made, the two objects of the returned  *)
(* pair, their contents as returned (got) and as the caller itself has     *)
(* left them since (seen)                                                  *)
NoHold == [call |-> NoCall, refs |-> <<>>, got |-> <<>>, seen |-> <<>>]

(* ------------------ one caller, one call after another ----------------- *)

Init ==
  /\ call = NoCall
  /\ ret = NoResult
  /\ heap = <<>>
  /\ held = [c \in Callers |-> NoHold]

Call_gauss_1d(npts) ==
  /\ call = NoCall
  /\ call' = [op |-> "gauss_1d", args |-> <<npts>>]
  /\ ret' = gauss_1d(npts)
  /\ UNCHANGED <<heap, held>>

Call_gauss_nd(npts, ndim) ==
  /\ call = NoCall
  /\ call' = [op |-> "gauss_nd", args |-> <<npts, ndim>>]
  /\ ret' = gauss_nd(npts, ndim)
  /\ UNCHANGED <<heap, held>>

Call_gauss_tri(order) ==
  /\ call = NoCall
  /\ call' = [op |-> "gauss_tri", args |-> <<order>>]
  /\ ret' = gauss_tri(order)
  /\ UNCHANGED <<heap, held>>

Call_gpoints2x2 ==
  /\ call = NoCall
  /\ call' = [op |-> "gpoints2x2", args |-> <<>>]
  /\ ret' = gpoints2x2
  /\ UNCHANGED <<heap, held>>

Call_gpoints7 ==
  /\ call = NoCall
  /\ call' = [op |-> "gpoints7", args |-> <<>>]
  /\ ret' = gpoints7
  /\ UNCHANGED <<heap, held>>

Call_gpoints3 ==
  /\ call = NoCall
  /\ call' = [op |-> "gpoints3", args |-> <<>>]
  /\ ret' = gpoints3
  /\ UNCHANGED <<heap, held>>

(* the caller is done with the result and is ready for its next call *)
Drop ==
  /\ call # NoCall
  /\ call' = NoCall
  /\ ret' = NoResult
  /\ UNCHANGED <<heap, held>>

Next ==
  \/ \E npts \in NptsArgs : Call_gauss_1d(npts)
  \/ \E a \in NdArgs : Call_gauss_nd(a[1], a[2])
  \/ \E order \in OrderArgs : Call_gauss_tri(order)
  \/ Call_gpoints2x2
  \/ Call_gpoints7
  \/ Call_gpoints3
  \/ Drop

Spec == Init /\ [][Next]_vars

(* ------- several callers, each modifying in place what it received ----- *)

ConcCalls ==
  { [op |-> "gauss_1d", args |-> <<3>>],
    [op |-> "gauss_nd", args |-> <<2, 2>>],
    [op |-> "gauss_tri", args |-> <<2>>],
    [op |-> "gpoints2x2", args |-> <<>>],
    [op |-> "gpoints7", args |-> <<>>],
    [op |-> "gpoints3", args |-> <<>>] }

Apply(cl) ==
  CASE cl.op = "gauss_1d" -> gauss_1d(cl.args[1])
    [] cl.op = "gauss_nd" -> gauss_nd(cl.args[1], cl.args[2])
    [] cl.op = "gauss_tri" -> gauss_tri(cl.args[1])
    [] cl.op = "gpoints2x2" -> gpoints2x2
    [] cl.op = "gpoints7" -> gpoints7
    [] cl.op = "gpoints3" -> gpoints3

(* the value of each call of ConcCalls: the functions read nothing but     *)
(* their arguments                                                         *)
Results == [cl \in ConcCalls |-> Apply(cl)]

Refs(h) == {h.refs[i] : i \in 1..Len(h.refs)}

RefsOfOthers(c) == UNION {Refs(held[d]) : d \in Callers \ {c}}

(* the lowest address not in use *)
FirstFree(used) ==
  CHOOSE i \in 1..(Cardinality(used) + 1) :
    i \notin used /\ \A j \in 1..(i - 1) : j \in used

(* a rule kept by the module and handed to every caller of the same call *)
SharedObjects(c, cl) ==
  IF \E d \in Callers \ {c} : held[d].call = cl
  THEN held[CHOOSE d \in Callers \ {c} : held[d].call = cl].refs
  ELSE <<FirstFree(DOMAIN heap), FirstFree(DOMAIN heap \cup {FirstFree(DOMAIN heap)})>>

(* the two objects of the pair that caller c's call cl returns: each call  *)
(* evaluates its list displays and array constructors anew                 *)
NewObjects(c, cl) ==
  <<FirstFree(DOMAIN heap), FirstFree(DOMAIN heap \cup {FirstFree(DOMAIN heap)})>>

Deref(h, refs) == [i \in 1..Len(refs) |-> h[refs[i]]]

(* rule = f(args): the call builds its pair, the caller's name is bound to *)
(* it and the pair it held before is released                              *)
ConcCall(c, cl) ==
  \E r \in {Results[cl]}, refs \in {NewObjects(c, cl)} :
    \E h \in {[id \in RefsOfOthers(c) \cup {refs[1], refs[2]} |->
                 IF id \in DOMAIN heap THEN heap[id]
                 ELSE IF id = refs[1] THEN r.value[1] ELSE r.value[2]]} :
      /\ r.status = "return"
      /\ heap' = h
      /\ held' = [held EXCEPT ![c] = [call |-> cl, refs |-> refs,
                                      got |-> Deref(h, refs),
                                      seen |-> Deref(h, refs)]]
      /\ UNCHANGED <<call, ret>>

FillArray(a, v) ==
  [a EXCEPT !.data = [i \in 1..Len(a.data) |->
                        IF Len(a.shape) = 2 THEN [j \in 1..Len(a.data[i]) |-> v]
                        ELSE v]]

(* rule[slot][:] = 0: caller c overwrites, in place, a member of its pair  *)
Fill(c, slot) ==
  /\ held[c] # NoHold
  /\ heap' = [heap EXCEPT ![held[c].refs[slot]] = FillArray(@, FZero)]
  /\ held' = [held EXCEPT ![c].seen[slot] = FillArray(@, FZero)]
  /\ UNCHANGED <<call, ret>>

(* del rule: caller c lets go of its pair *)
Forget(c) ==
  /\ held[c] # NoHold
  /\ held' = [held EXCEPT ![c] = NoHold]
  /\ heap' = [id \in RefsOfOthers(c) |-> heap[id]]
  /\ UNCHANGED <<call, ret>>

ConcNext ==
  \E c \in Callers :
    \/ \E cl \in ConcCalls : ConcCall(c, cl)
    \/ \E slot \in 1..2 : Fill(c, slot)
    \/ Forget(c)

SpecConc == Init /\ [][ConcNext]_vars

(* ------------------ exact arithmetic on float values ------------------- *)

(* |a| in units of 2^-60, for |a| a multiple of 2^-60 *)
Fix(a) == IF a.s = 0 THEN <<>> ELSE Shl(a.m, a.e + 60)

(* the sum of the |w[i]| with w[i] of sign sg, in units of 2^-60 *)
SumFix(w, sg) ==
  LET go[k \in 0..Len(w)] ==
        IF k = 0 THEN <<>>
        ELSE IF w[k].s = sg THEN AddN(go[k - 1], Fix(w[k])) ELSE go[k - 1]
  IN go[Len(w)]

(* |w[1] + ... + w[Len(w)] - t| <= num / 10^exp, exactly, for t >= 0 *)
SumWithin(w, t, num, exp) ==
  CmpN(MulN(AbsDiffN(SumFix(w, 1), AddN(SumFix(w, -1), Shl(<<t>>, 60))), Pow10(exp)),
       Shl(<<num>>, 60)) <= 0

(* |k * a - j| <= k / 10^exp, exactly: a > 0 is within 10^-exp of j/k *)
NearFraction(a, j, k, exp) ==
  /\ a.s = 1
  /\ CmpN(MulN(AbsDiffN(MulSmall(Fix(a), k), Shl(<<j>>, 60)), Pow10(exp)),
          Shl(<<k>>, 60)) <= 0

AbsLessThanOne(a) == a.s = 0 \/ a.e <= -53

ValidNpts == 2..10

ValidOrder == 1..7

Called(op) == call.op = op /\ ret # NoResult

RetPts == ret.value[1]

RetWts == ret.value[2]

(* ------------------------------- C8 ------------------------------------ *)

(* C8: for every n in 2..10, gauss_1d(n) returns n points and n weights;   *)
(* the points are mirror-symmetric about 0 and strictly inside (-1, 1),    *)
(* exactly one point is 0 for odd n and none for even n, every weight is   *)
(* strictly positive, and the weights sum to 2.0 within 1e-12.             *)
C8_LineRuleInvariants ==
  (Called("gauss_1d") /\ call.args[1] \in ValidNpts) =>
    LET n == call.args[1]
        pts == RetPts.data
        wts == RetWts.data
    IN /\ ret.status = "return"
       /\ Len(pts) = n /\ Len(wts) = n
       /\ \A i \in 1..n : pts[i] = FNeg(pts[n + 1 - i])
       /\ \A i \in 1..n : AbsLessThanOne(pts[i])
       /\ Cardinality({i \in 1..n : pts[i] = FZero}) = n % 2
       /\ \A i \in 1..n : wts[i].s = 1
       /\ SumWithin(wts, 2, 1, 12)

(* a seven-point line rule, with its point at 0, has been returned *)
C8_Witness ==
  /\ Called("gauss_1d") /\ call.args = <<7>> /\ ret.status = "return"
  /\ RetPts.data[4] = FZero
  /\ Len(RetWts.data) = 7

(* ------------------------------- C9 ------------------------------------ *)

(* x >= 0, y >= 0 and x + y <= 1, exactly *)
InReferenceTriangle(p) ==
  /\ p[1].s >= 0 /\ p[2].s >= 0
  /\ CmpN(AddN(Fix(p[1]), Fix(p[2])), Pow2(60)) <= 0

NegativeWeights(wts) == {i \in 1..Len(wts) : wts[i].s = -1}

(* what C9 says of the points and of the sign of the weights *)
TrianglePointsAndSigns ==
  LET pts == RetPts.data
      wts == RetWts.data
  IN /\ ret.status = "return"
     /\ \A i \in 1..Len(pts) : InReferenceTriangle(pts[i])
     /\ Cardinality(NegativeWeights(wts))
          = (IF call.args[1] \in {6, 7} THEN 1 ELSE 0)

(* C9 as stated: for every order in 1..7 the weights of gauss_tri(order)   *)
(* sum to 1.0, every point lies in the reference triangle, the 13-point    *)
(* rule has exactly one negative weight and no other rule has any.         *)
C9_WeightsSumToOneExactly ==
  (Called("gauss_tri") /\ call.args[1] \in ValidOrder) =>
    /\ TrianglePointsAndSigns
    /\ SumWithin(RetWts.data, 1, 0, 0)

(* C9 as amended: the same, with the weights summing to 1.0 within 1e-12   *)
(* (they are tabulated to 12 or 13 decimals and miss 1.0 by up to 1e-12).  *)
C9_WeightsSumToOneWithinTolerance ==
  (Called("gauss_tri") /\ call.args[1] \in ValidOrder) =>
    /\ TrianglePointsAndSigns
    /\ SumWithin(RetWts.data, 1, 1, 12)

(* the 13-point rule, with its negative last weight, has been returned *)
C9_Witness ==
  /\ Called("gauss_tri") /\ call.args = <<6>> /\ ret.status = "return"
  /\ Len(RetWts.data) = 13
  /\ NegativeWeights(RetWts.data) = {13}

(* ------------------------------- C6 ------------------------------------ *)

(* the pair r is the rule t with its two members exchanged *)
SwappedPairOf(r, t) ==
  /\ r.status = "return" /\ t.status = "return"
  /\ r.value[1] = t.value[2]
  /\ r.value[2] = t.value[1]

(* C6: gpoints3 returns, index by index, the weights and points of         *)
(* gauss_tri(2): three weights of 1/3 and the points (1/6, 1/6),           *)
(* (2/3, 1/6), (1/6, 2/3), each to the 12 decimals of its literal; and     *)
(* gpoints7 returns, index by index, the weights and points of             *)
(* gauss_tri(3); only the order of the returned pair differs.              *)
C6_LegacyTriangleRulesMatch ==
  /\ Called("gpoints3") =>
       /\ SwappedPairOf(ret, gauss_tri(2))
       /\ Len(ret.value[1].data) = 3
       /\ \A i \in 1..3 : NearFraction(ret.value[1].data[i], 1, 3, 12)
       /\ LET p == ret.value[2].data
          IN /\ Len(p) = 3
             /\ NearFraction(p[1][1], 1, 6, 12) /\ NearFraction(p[1][2], 1, 6, 12)
             /\ NearFraction(p[2][1], 4, 6, 12) /\ NearFraction(p[2][2], 1, 6, 12)
             /\ NearFraction(p[3][1], 1, 6, 12) /\ NearFraction(p[3][2], 4, 6, 12)
  /\ Called("gpoints7") => SwappedPairOf(ret, gauss_tri(3))

(* gpoints7 has returned its seven weights and seven points *)
C6_Witness ==
  /\ Called("gpoints7") /\ ret.status = "return"
  /\ Len(ret.value[1].data) = 7
  /\ ret.value[2].shape = <<7, 2>>

(* ------------------------------- C4 ------------------------------------ *)

TrianglePointCount(order) ==
  CASE order = 1 -> 1
    [] order = 2 -> 3
    [] order \in {3, 4, 5} -> 7
    [] order \in {6, 7} -> 13

(* C4: gauss_tri(order) returns as many weights as points: 1 point for     *)
(* order 1, 3 for order 2, 7 for orders 3, 4, 5 (one rule for the three)   *)
(* and 13 for orders 6, 7 (one rule for both); for any order outside       *)
(* [1, 7] it raises the error whose message names the range [1, 7].        *)
C4_TriangleRuleFamilies ==
  Called("gauss_tri") =>
    LET order == call.args[1]
    IN IF order \in ValidOrder
       THEN /\ ret.status = "return"
            /\ Len(RetPts.data) = TrianglePointCount(order)
            /\ Len(RetWts.data) = TrianglePointCount(order)
            /\ RetPts.shape = <<TrianglePointCount(order), 2>>
            /\ order \in {3, 4, 5} => ret = gauss_tri(3)
            /\ order \in {6, 7} => ret = gauss_tri(6)
       ELSE /\ ret.status = "raise"
            /\ ret.exc = "ValueError"
            /\ ret.msg = "The order should be in [1, 7]"
            /\ ret.value = <<>>

(* order 5 has been answered with the seven-point rule *)
C4_Witness ==
  /\ Called("gauss_tri") /\ call.args = <<5>> /\ ret.status = "return"
  /\ Len(RetPts.data) = 7

(* ------------------------------- C5 ------------------------------------ *)

IsPoints2d(a) == Len(a.shape) = 2

IsWeights(a) == Len(a.shape) = 1 /\ \A i \in 1..Len(a.data) : a.data[i].s # 0

(* a line rule's abscissas are the list with negative members, its weights *)
(* the list of positive numbers                                           *)
IsAbscissas(a) == Len(a.shape) = 1 /\ \E i \in 1..Len(a.data) : a.data[i].s = -1

IsLineWeights(a) == Len(a.shape) = 1 /\ \A i \in 1..Len(a.data) : a.data[i].s = 1

UnsupportedPrecision == Raise("ValueError", "The number of points should be in [2, 10]")

(* C3: gauss_1d(n) returns a rule exactly when n is one of 2..10; for any  *)
(* other n it raises the error whose message names the range [2, 10], and  *)
(* gauss_nd(n, d) with such an n and d >= 1 raises that same error,        *)
(* unchanged, with no partial result.                                      *)
C3_UnsupportedPrecision ==
  /\ Called("gauss_1d") =>
       /\ ret.status = "return" <=> call.args[1] \in ValidNpts
       /\ call.args[1] \in ValidNpts => Len(ret.value) = 2
       /\ call.args[1] \notin ValidNpts => ret = UnsupportedPrecision
  /\ (Called("gauss_nd") /\ call.args[1] \notin ValidNpts /\ call.args[2] >= 1) =>
       /\ ret = UnsupportedPrecision
       /\ ret = gauss_1d(call.args[1])
       /\ ret.value = <<>>

(* gauss_nd(11, 2) has failed with gauss_1d's error *)
C3_Witness ==
  /\ Called("gauss_nd") /\ call.args = <<11, 2>>
  /\ ret.status = "raise"
  /\ ret.msg = "The number of points should be in [2, 10]"

(* ------------------------------- C1 ------------------------------------ *)

(* the index along axis j (of d axes of n points) of the i-th tuple in     *)
(* lexicographic order, the first axis slowest                             *)
AxisIndex(i, j, n, d) == (((i - 1) \div (n ^ (d - j))) % n) + 1

(* the product w[AxisIndex(i, 1)] * ... * w[AxisIndex(i, d)], in that order *)
AxisWeightProduct(w, i, n, d) ==
  LET go[j \in 0..d] ==
        IF j = 0 THEN FOne ELSE FMul(go[j - 1], w[AxisIndex(i, j, n, d)])
  IN go[d]

(* C1: for n in 2..10 and d >= 1, gauss_nd(n, d) returns n^d points and    *)
(* n^d weights; the points are the d-tuples over the abscissas of          *)
(* gauss_1d(n) in lexicographic order (first axis slowest, last fastest),  *)
(* and the i-th weight is the product of the 1-D weights that belong to    *)
(* the d components of the i-th point.                                     *)
C1_TensorProductRule ==
  (Called("gauss_nd") /\ call.args[1] \in ValidNpts /\ call.args[2] >= 1) =>
    LET n == call.args[1]
        d == call.args[2]
    IN At2(LAMBDA pts, wts :
             /\ ret.status = "return"
             /\ RetPts.shape = <<n ^ d, d>>
             /\ Len(RetPts.data) = n ^ d
             /\ Len(RetWts.data) = n ^ d
             /\ \A i \in 1..(n ^ d) :
                  /\ Len(RetPts.data[i]) = d
                  /\ \A j \in 1..d : RetPts.data[i][j] = pts[AxisIndex(i, j, n, d)]
                  /\ RetWts.data[i] = AxisWeightProduct(wts, i, n, d),
           gauss_1d(n).value[1].data, gauss_1d(n).value[2].data)

(* gauss_nd(3, 2) has returned its nine points, the second of them with    *)
(* the first abscissa on the first axis and the second on the last axis    *)
C1_Witness ==
  /\ Called("gauss_nd") /\ call.args = <<3, 2>> /\ ret.status = "return"
  /\ Len(RetPts.data) = 9
  /\ RetPts.data[2] = <<Float(pts_3[1]), Float(pts_3[2])>>
  /\ RetWts.data[2] = FMul(Float(wts_3[1]), Float(wts_3[2]))

(* ------------------------------- C2 ------------------------------------ *)

(* C2: for n in 2..10 and every d < 1 (0 and the negative d), gauss_nd(n,  *)
(* d) fails and returns no rule.                                           *)
C2_InvalidDimensionRejected ==
  (Called("gauss_nd") /\ call.args[1] \in ValidNpts /\ call.args[2] < 1) =>
    /\ ret.status = "raise"
    /\ ret.value = <<>>

(* ------------------------------- C7 ------------------------------------ *)

(* the bag of the (point, weight) pairs of a rule *)
RuleBag(pts, wts) ==
  LET pair(i) == <<pts.data[i], wts.data[i]>>
  IN [x \in {pair(i) : i \in 1..Len(pts.data)} |->
        Cardinality({i \in 1..Len(pts.data) : pair(i) = x})]

(* C7: gauss_nd(2, 2) yields exactly 4 points, each of weight 1.0, and the *)
(* multiset of its (point, weight) pairs is that of gpoints2x2.            *)
C7_SameRuleAsLegacy2x2 ==
  (Called("gauss_nd") /\ call.args = <<2, 2>>) =>
    /\ ret.status = "return"
    /\ Len(RetPts.data) = 4
    /\ \A i \in 1..4 : RetWts.data[i] = FOne
    /\ RuleBag(RetPts, RetWts) = RuleBag(gpoints2x2.value[2], gpoints2x2.value[1])

(* ------------------------------- C10 ----------------------------------- *)

(* C10: every call returns a freshly built rule that shares no storage     *)
(* with any other result: however the callers' calls and their in-place    *)
(* modifications of what they received interleave, a call returns the      *)
(* tabulated points and weights of its arguments, and what a caller holds  *)
(* changes only by that caller's own modifications.                        *)
C10_FreshIndependentResults ==
  \A c \in Callers :
    held[c] # NoHold =>
      /\ held[c].got = Results[held[c].call].value
      /\ Deref(heap, held[c].refs) = held[c].seen
      /\ held[c].refs[1] # held[c].refs[2]
      /\ Refs(held[c]) \cap RefsOfOthers(c) = {}

(* two callers hold the rule of the same call; one has overwritten its     *)
(* copy, the other's is as returned                                        *)
C10_Witness ==
  \E c \in Callers, d \in Callers :
    /\ c # d
    /\ held[c] # NoHold
    /\ held[c].call = held[d].call
    /\ Deref(heap, held[c].refs) # held[c].got
    /\ Deref(heap, held[d].refs) = held[d].got
    /\ held[d].got = Results[held[d].call].value

====
